---- MODULE Spec2Model ----
(***************************************************************************)
(* Model of axlearn/experiments/text/gpt/fuji.py: the module-level         *)
(* NEURON_CC_FLAGS adjustment, get_trainer_kwargs and model_config,        *)
(* together with the collaborators of axlearn.experiments.text.gpt.common  *)
(* they call (scaled_hidden_dim, mesh_shape_from_axes, learner_config,     *)
(* model_config) and the mesh rule resolver that consumes their output.    *)
(*                                                                         *)
(* One process is modelled: the backend, the device count and the initial  *)
(* environment are fixed when the process starts; the module is imported   *)
(* once; afterwards get_trainer_kwargs and model_config are called with    *)
(* arbitrary arguments.  ret holds the outcome of the most recent call.    *)
(***************************************************************************)
EXTENDS Integers, Sequences, FiniteSets

VARIABLES module_state, backend, device_count, NEURON_CC_FLAGS, stdout, calls, ret

vars == <<module_state, backend, device_count, NEURON_CC_FLAGS, stdout, calls, ret>>

(***************************************************************************)
(* Bounds of the model.                                                    *)
(***************************************************************************)
\* jax.device_count() ranges over 1..MaxDeviceCount and the two counts below.
MaxDeviceCount == 9

\* Number of get_trainer_kwargs / model_config calls made by one process.
MaxCalls == 2

\* model_config is called with hidden_dim in 1..MaxHiddenDim (and 8, 512).
MaxHiddenDim == 4

\* round_up_to_multiples_of ranges over 1..MaxMultiple (and 16, 256).
MaxMultiple == 3

(***************************************************************************)
(* Module constants.                                                       *)
(***************************************************************************)
MODEL_SIZES == {"test", "7B"}

MAX_SEQUENCE_LENGTH == 2048

TRN_MODEL_AXIS_SIZE == 8

GRADIENT_ACCUMULATION_MICROBATCHES == 8

(***************************************************************************)
(* Inputs.                                                                 *)
(***************************************************************************)
DeviceCounts == (1..MaxDeviceCount) \cup {63, 64}

Backends == {"cpu", "neuron"}

\* Size keys a caller may pass: the two presets and two keys outside them.
SizeKeys == {"test", "7B", "70B", "TEST"}

VocabSizes == {32, 50, 32000}

\* os.environ at process start: NEURON_CC_FLAGS unset, empty, or holding flags.
InitialEnviron ==
    { [present |-> FALSE, flags |-> <<>>],
      [present |-> TRUE, flags |-> <<>>],
      [present |-> TRUE, flags |-> << <<"--retry_failed_compilation">> >>] }

(***************************************************************************)
(* Python arithmetic.  x / y on ints is true division; its result is kept  *)
(* as the exact fraction num/den.  (The float64 quotient by                *)
(* TRN_MODEL_AXIS_SIZE = 8, a power of two, and its product with 8 are     *)
(* exact for every device count, so no rounding is lost.)  int() truncates *)
(* towards zero, which on the non-negative values here is floor.           *)
(***************************************************************************)
TrueDiv(x, y) == [num |-> x, den |-> y]

MulFloat(q, k) == [num |-> q.num * k, den |-> q.den]

PyInt(q) == q.num \div q.den

\* math.ceil of the fraction n / d, for n >= 0 and d > 0.
Ceil(n, d) == (n + d - 1) \div d

(***************************************************************************)
(* axlearn.experiments.text.gpt.common.scaled_hidden_dim: a deferred       *)
(* dimension, scale = num/den, evaluated later against the base dimension. *)
(***************************************************************************)
scaled_hidden_dim(num, den, round_up_to_multiples_of) ==
    [kind |-> "scaled", num |-> num, den |-> den, m |-> round_up_to_multiples_of]

ConcreteDim(n) == [kind |-> "int", num |-> n, den |-> 1, m |-> 1]

NoneDim == [kind |-> "none", num |-> 0, den |-> 1, m |-> 1]

\* Evaluation of a dimension spec once the base dimension is known.
ResolveDim(spec, base) ==
    IF spec.kind = "int"
    THEN spec.num
    ELSE spec.m * Ceil(spec.num * base, spec.den * spec.m)

(***************************************************************************)
(* axlearn.experiments.text.gpt.common.mesh_shape_from_axes: axes that are *)
(* not named have size 1; -1 is the "infer remaining" sentinel.            *)
(***************************************************************************)
mesh_shape_from_axes(data, fsdp, seq, model) ==
    [data |-> data, fsdp |-> fsdp, seq |-> seq, model |-> model]

(***************************************************************************)
(* Python dict operations used by get_trainer_kwargs.                      *)
(***************************************************************************)
Pop(d, k) == [x \in (DOMAIN d) \ {k} |-> d[x]]

SetDefault(d, k, v) ==
    IF k \in DOMAIN d
    THEN d
    ELSE [x \in (DOMAIN d) \cup {k} |-> IF x = k THEN v ELSE d[x]]

SetItem(d, k, v) == [x \in (DOMAIN d) \cup {k} |-> IF x = k THEN v ELSE d[x]]

(***************************************************************************)
(* Mesh rule patterns.  A pattern is a sequence of parts; a part is the    *)
(* set of its alternatives, each a sequence of characters; "." in a        *)
(* pattern is the regular-expression wildcard.                             *)
(***************************************************************************)
\* "tpu-v4-(1024|2048)"
pattern_tpu_v4 ==
    << { <<"t", "p", "u", "-", "v", "4", "-">> },
       { <<"1", "0", "2", "4">>, <<"2", "0", "4", "8">> } >>

\* "tpu-v5litepod-256"
pattern_tpu_v5e ==
    << { <<"t", "p", "u", "-", "v", "5", "l", "i", "t", "e", "p", "o", "d", "-", "2", "5", "6">> } >>

\* "gpu-(p5.48xlarge|p4de.24xlarge)-(256|512|1024)"
pattern_gpu ==
    << { <<"g", "p", "u", "-">> },
       { <<"p", "5", ".", "4", "8", "x", "l", "a", "r", "g", "e">>,
         <<"p", "4", "d", "e", ".", "2", "4", "x", "l", "a", "r", "g", "e">> },
       { <<"-">> },
       { <<"2", "5", "6">>, <<"5", "1", "2">>, <<"1", "0", "2", "4">> } >>

\* "neuron-(trn1.32xlarge|trn1n.32xlarge)-(32|64|256|512|1024|2048)"
pattern_neuron ==
    << { <<"n", "e", "u", "r", "o", "n", "-">> },
       { <<"t", "r", "n", "1", ".", "3", "2", "x", "l", "a", "r", "g", "e">>,
         <<"t", "r", "n", "1", "n", ".", "3", "2", "x", "l", "a", "r", "g", "e">> },
       { <<"-">> },
       { <<"3", "2">>, <<"6", "4">>, <<"2", "5", "6">>, <<"5", "1", "2">>,
         <<"1", "0", "2", "4">>, <<"2", "0", "4", "8">> } >>

(***************************************************************************)
(* The two presets of get_trainer_kwargs.                                  *)
(***************************************************************************)
\* mesh_shape of the "test" preset: mesh_shape_from_axes()
mesh_shape_test == mesh_shape_from_axes(1, 1, 1, 1)

\* Two sentinel axes in the default shape.
mesh_shape_7B_two_sentinels == mesh_shape_from_axes(-1, -1, 1, 1)

\* mesh_shape of the "7B" preset: mesh_shape_from_axes(fsdp=-1)
mesh_shape_7B == mesh_shape_from_axes(1, -1, 1, 1)

\* The tpu-v4 rule carrying the gpu rule's shape.
mesh_rules_7B_wrong_shape ==
    << [pattern |-> pattern_tpu_v4, shape |-> mesh_shape_from_axes(-1, 8, 1, 1)],
       [pattern |-> pattern_tpu_v5e, shape |-> mesh_shape_from_axes(-1, 16, 1, 1)],
       [pattern |-> pattern_gpu, shape |-> mesh_shape_from_axes(-1, 8, 1, 1)],
       [pattern |-> pattern_neuron,
        shape |-> mesh_shape_from_axes(-1, 1, 1, TRN_MODEL_AXIS_SIZE)] >>

\* mesh_rules of the "7B" preset, in source order.
mesh_rules_7B ==
    << [pattern |-> pattern_tpu_v4, shape |-> mesh_shape_from_axes(-1, 16, 1, 1)],
       [pattern |-> pattern_tpu_v5e, shape |-> mesh_shape_from_axes(-1, 16, 1, 1)],
       [pattern |-> pattern_gpu, shape |-> mesh_shape_from_axes(-1, 8, 1, 1)],
       [pattern |-> pattern_neuron,
        shape |-> mesh_shape_from_axes(-1, 1, 1, TRN_MODEL_AXIS_SIZE)] >>

\* int(jax.device_count()/TRN_MODEL_AXIS_SIZE)
eval_batch_size(d) == PyInt(TrueDiv(d, TRN_MODEL_AXIS_SIZE))

\* Integer division before the multiplication.
train_batch_size_7B_floor_first(d) ==
    (d \div TRN_MODEL_AXIS_SIZE) * GRADIENT_ACCUMULATION_MICROBATCHES

\* int((jax.device_count()/TRN_MODEL_AXIS_SIZE)*GRADIENT_ACCUMULATION_MICROBATCHES)
train_batch_size_7B(d) ==
    PyInt(MulFloat(TrueDiv(d, TRN_MODEL_AXIS_SIZE), GRADIENT_ACCUMULATION_MICROBATCHES))

\* trainer_kwargs as built by the "test" branch.
trainer_kwargs_test(d) ==
    [ model_kwargs |->
        [ num_layers |-> 4,
          hidden_dim |-> 8,
          ffn_dim |-> scaled_hidden_dim(8, 3, 16),
          num_heads |-> 4,
          vocab_size |-> 32 ],
      learner_kwargs |-> [peak_lr |-> "6e-4", weight_decay |-> "0.01"],
      input_partition_type |-> "DataPartitionType.DATA",
      max_sequence_length |-> 64,
      train_batch_size |-> 16,
      max_step |-> 3000,
      mesh_shape |-> mesh_shape_test,
      eval_batch_size |-> eval_batch_size(d) ]

\* The "7B" branch without eval_every_n_steps.
trainer_kwargs_7B_no_cadence(d) ==
    [ model_kwargs |->
        [ num_layers |-> 2,
          hidden_dim |-> 512,
          ffn_dim |-> scaled_hidden_dim(4, 1, 16),
          num_heads |-> 32,
          vocab_size |-> 32000 ],
      learner_kwargs |-> [peak_lr |-> "3e-4", weight_decay |-> "0.1"],
      input_partition_type |-> "DataPartitionType.DATA",
      train_batch_size |-> train_batch_size_7B(d),
      max_sequence_length |-> MAX_SEQUENCE_LENGTH,
      max_step |-> 500000,
      mesh_shape |-> mesh_shape_7B,
      mesh_rules |-> mesh_rules_7B,
      eval_batch_size |-> eval_batch_size(d) ]

\* trainer_kwargs as built by the "7B" branch.
trainer_kwargs_7B(d) ==
    [ model_kwargs |->
        [ num_layers |-> 2,
          hidden_dim |-> 512,
          ffn_dim |-> scaled_hidden_dim(4, 1, 16),
          num_heads |-> 32,
          vocab_size |-> 32000 ],
      learner_kwargs |-> [peak_lr |-> "3e-4", weight_decay |-> "0.1"],
      input_partition_type |-> "DataPartitionType.DATA",
      train_batch_size |-> train_batch_size_7B(d),
      max_sequence_length |-> MAX_SEQUENCE_LENGTH,
      max_step |-> 500000,
      mesh_shape |-> mesh_shape_7B,
      mesh_rules |-> mesh_rules_7B,
      eval_batch_size |-> eval_batch_size(d),
      eval_every_n_steps |-> 5000 ]

(***************************************************************************)
(* axlearn.experiments.text.gpt.common.model_config and learner_config:    *)
(* the composed configs.  The deferred ffn_dim is evaluated against        *)
(* hidden_dim.                                                             *)
(***************************************************************************)
common_model_config(num_layers, hidden_dim, num_heads, vocab_size, stack_cfg, activation_fn, ffn_dim, normalization, dropout_rate, emb_cfg, attention_mask, attention_qkv_linear) ==
    [ num_layers |-> num_layers,
      hidden_dim |-> hidden_dim,
      num_heads |-> num_heads,
      vocab_size |-> vocab_size,
      stack_cfg |-> stack_cfg,
      activation_fn |-> activation_fn,
      ffn_dim |-> ResolveDim(ffn_dim, hidden_dim),
      normalization |-> normalization,
      dropout_rate |-> dropout_rate,
      emb_cfg |-> emb_cfg,
      attention_mask |-> attention_mask,
      attention_qkv_linear |-> attention_qkv_linear ]

learner_config(max_step, gradient_accumulation_microbatches, metrics_accumulation_key_ops, learner_kwargs) ==
    [ max_step |-> max_step,
      gradient_accumulation_microbatches |-> gradient_accumulation_microbatches,
      metrics_accumulation_key_ops |-> metrics_accumulation_key_ops,
      peak_lr |-> learner_kwargs.peak_lr,
      weight_decay |-> learner_kwargs.weight_decay ]

(***************************************************************************)
(* model_config of fuji.py.                                                *)
(***************************************************************************)
\* The default rounded to multiples of 16, as the presets do.
default_ffn_dim_16 == scaled_hidden_dim(8, 3, 16)

\* ffn_dim used when the caller passes None.
default_ffn_dim == scaled_hidden_dim(8, 3, 256)

model_config(num_layers, hidden_dim, num_heads, vocab_size, ffn_dim) ==
    common_model_config(
        num_layers, hidden_dim, num_heads, vocab_size,
        "StackedTransformerLayer",
        <<"nn.silu", "linear">>,
        IF ffn_dim.kind = "none" THEN default_ffn_dim ELSE ffn_dim,
        [cls |-> "RMSNorm", eps |-> "1e-5", forward_dtype |-> "None"],
        "0.0",
        [cls |-> "TransformerTextEmbeddings", pos_emb |-> "None"],
        "CausalAttentionLogitBiasLayer",
        [cls |-> "RoFormerQKVLinear", input_linear |-> "FusedQKVLinear",
         cache_dtype |-> "STEP_DTYPE", rotary_value |-> FALSE])

(***************************************************************************)
(* get_trainer_kwargs of fuji.py.                                          *)
(***************************************************************************)
\* An unknown size key falling through to the last preset.
Branch_fallthrough(model_size) ==
    IF model_size = "test" THEN "test" ELSE "7B"

\* The if / elif / else on model_size.
Branch(model_size) ==
    IF model_size = "test" THEN "test"
    ELSE IF model_size = "7B" THEN "7B"
    ELSE "raise"

\* The preset's raw bundle; jax.device_count() is read while it is built.
trainer_kwargs_of(branch, d) ==
    IF branch = "test" THEN trainer_kwargs_test(d) ELSE trainer_kwargs_7B(d)

\* Reads of jax.device_count() made while the branch builds trainer_kwargs.
device_count_reads(branch) ==
    IF branch = "test"
    THEN <<"jax.device_count">>
    ELSE <<"jax.device_count", "jax.device_count">>

\* Lines written to standard output by the branch.
printed(branch, kw) ==
    IF branch = "7B"
    THEN << <<"batch size is ", kw.train_batch_size>> >>
    ELSE <<>>

\* Lines 103-113: the configs are composed and replace the raw kwargs.
compose(kw, vocab_size) ==
    LET model_kwargs == SetDefault(kw.model_kwargs, "vocab_size", vocab_size)
        popped == Pop(kw, "model_kwargs")
        with_model == SetItem(popped, "model_cfg",
                              model_config(model_kwargs.num_layers,
                                           model_kwargs.hidden_dim,
                                           model_kwargs.num_heads,
                                           model_kwargs.vocab_size,
                                           model_kwargs.ffn_dim))
    IN  SetItem(Pop(with_model, "learner_kwargs"), "learner_cfg",
                learner_config(
                    kw.max_step,
                    GRADIENT_ACCUMULATION_MICROBATCHES,
                    [k \in {".output_collection.summaries['bits_per_byte'].mean"}
                        |-> "AddStrategy"],
                    kw.learner_kwargs))

\* The outcome of get_trainer_kwargs(model_size, vocab_size=vocab_size) in a
\* process whose jax.device_count() is d.
get_trainer_kwargs(model_size, vocab_size, d) ==
    LET branch == Branch(model_size)
        args == [model_size |-> model_size, vocab_size |-> vocab_size]
    IN  IF branch = "raise"
        THEN [ fn |-> "get_trainer_kwargs", args |-> args,
               raised |-> "NotImplementedError", value |-> <<>>,
               preset |-> <<>>, built |-> {}, reads |-> <<>>, out |-> <<>> ]
        ELSE LET kw == trainer_kwargs_of(branch, d)
             IN  [ fn |-> "get_trainer_kwargs", args |-> args,
                   raised |-> "none", value |-> compose(kw, vocab_size),
                   preset |-> kw,
                   built |-> {"model_cfg", "learner_cfg"},
                   reads |-> device_count_reads(branch),
                   out |-> printed(branch, kw) ]

(***************************************************************************)
(* The mesh rule resolver: the shape of the first rule whose pattern       *)
(* matches the whole selector, else the default shape.                     *)
(***************************************************************************)
RECURSIVE FullMatch(_, _)
FullMatch(pattern, s) ==
    IF pattern = <<>>
    THEN s = <<>>
    ELSE \E alt \in Head(pattern) :
            /\ Len(alt) <= Len(s)
            /\ \A i \in 1..Len(alt) : alt[i] = "." \/ alt[i] = s[i]
            /\ FullMatch(Tail(pattern), SubSeq(s, Len(alt) + 1, Len(s)))

RECURSIVE select_mesh(_, _, _)
select_mesh(selector, rules, default) ==
    IF rules = <<>>
    THEN default
    ELSE IF FullMatch(Head(rules).pattern, selector)
         THEN Head(rules).shape
         ELSE select_mesh(selector, Tail(rules), default)

\* Hardware descriptors handed to the resolver.
HardwareDescriptors ==
    { <<"t", "p", "u", "-", "v", "4", "-", "1", "0", "2", "4">>,
      <<"t", "p", "u", "-", "v", "4", "-", "2", "0", "4", "8">>,
      <<"t", "p", "u", "-", "v", "4", "-", "1", "0", "2", "4", "0">>,
      <<"x", "t", "p", "u", "-", "v", "4", "-", "1", "0", "2", "4">>,
      <<"t", "p", "u", "-", "v", "5", "l", "i", "t", "e", "p", "o", "d", "-", "2", "5", "6">>,
      <<"g", "p", "u", "-", "p", "5", ".", "4", "8", "x", "l", "a", "r", "g", "e", "-", "2", "5", "6">>,
      <<"g", "p", "u", "-", "p", "5", "x", "4", "8", "x", "l", "a", "r", "g", "e", "-", "5", "1", "2">>,
      <<"n", "e", "u", "r", "o", "n", "-", "t", "r", "n", "1", ".", "3", "2", "x", "l", "a", "r", "g", "e", "-", "6", "4">>,
      <<"n", "e", "u", "r", "o", "n", "-", "t", "r", "n", "1", ".", "3", "2", "x", "l", "a", "r", "g", "e", "-", "1", "6">>,
      <<"c", "p", "u", "-", "1">> }

(***************************************************************************)
(* Module import: lines 35-40.                                             *)
(***************************************************************************)
\* The option string appended to NEURON_CC_FLAGS.
tuning_flag ==
    IF GRADIENT_ACCUMULATION_MICROBATCHES > 1
    THEN <<"--internal-hlo2tensorizer-options", "--verify-hlo",
           "--num-concat-graphs", GRADIENT_ACCUMULATION_MICROBATCHES>>
    ELSE <<"--internal-hlo2tensorizer-options", "--verify-hlo">>

\* The adjustment made on every backend.
adjusts_on_any_backend(b) == TRUE

\* if jax.default_backend() == 'neuron'
adjusts(b) == b = "neuron"

Import ==
    /\ module_state = "unloaded"
    /\ IF adjusts(backend)
       THEN IF NEURON_CC_FLAGS.present
            THEN /\ NEURON_CC_FLAGS' =
                        [NEURON_CC_FLAGS EXCEPT !.flags = Append(@, tuning_flag)]
                 /\ module_state' = "loaded"
            ELSE \* os.environ["NEURON_CC_FLAGS"] raises KeyError
                 /\ module_state' = "failed"
                 /\ UNCHANGED NEURON_CC_FLAGS
       ELSE /\ module_state' = "loaded"
            /\ UNCHANGED NEURON_CC_FLAGS
    /\ UNCHANGED <<backend, device_count, stdout, calls, ret>>

(***************************************************************************)
(* Calls made by the process once the module is loaded.                    *)
(***************************************************************************)
CallGetTrainerKwargs ==
    /\ module_state = "loaded"
    /\ calls < MaxCalls
    /\ \E model_size \in SizeKeys, vocab_size \in VocabSizes :
          LET r == get_trainer_kwargs(model_size, vocab_size, device_count)
          IN  /\ ret' = r
              /\ stdout' = stdout \o r.out
    /\ calls' = calls + 1
    /\ UNCHANGED <<module_state, backend, device_count, NEURON_CC_FLAGS>>

HiddenDims == (1..MaxHiddenDim) \cup {8, 512}

Multiples == (1..MaxMultiple) \cup {16, 256}

FfnDims ==
    {NoneDim} \cup {ConcreteDim(n) : n \in {11, 2048}}
        \cup {scaled_hidden_dim(sc[1], sc[2], m) :
                sc \in {<<8, 3>>, <<4, 1>>, <<1, 2>>}, m \in Multiples}

CallModelConfig ==
    /\ module_state = "loaded"
    /\ calls < MaxCalls
    /\ \E hidden_dim \in HiddenDims, ffn_dim \in FfnDims, vocab_size \in {50} :
          ret' = [ fn |-> "model_config",
                   args |-> [num_layers |-> 4, hidden_dim |-> hidden_dim,
                             num_heads |-> 4, vocab_size |-> vocab_size,
                             ffn_dim |-> ffn_dim],
                   raised |-> "none",
                   value |-> model_config(4, hidden_dim, 4, vocab_size, ffn_dim),
                   preset |-> <<>>,
                   built |-> {"model_cfg"}, reads |-> <<>>, out |-> <<>> ]
    /\ calls' = calls + 1
    /\ UNCHANGED <<module_state, backend, device_count, NEURON_CC_FLAGS, stdout>>

\* The consumer of a resolved trainer config picks the mesh shape for the
\* hardware it runs on; a preset without mesh_rules has no rules.
SelectMesh ==
    /\ ret.fn = "get_trainer_kwargs"
    /\ ret.raised = "none"
    /\ \E selector \in HardwareDescriptors :
          LET rules == IF "mesh_rules" \in DOMAIN ret.value
                       THEN ret.value.mesh_rules ELSE <<>>
              default == ret.value.mesh_shape
          IN  ret' = [ fn |-> "select_mesh",
                       args |-> [model_size |-> ret.args.model_size,
                                 selector |-> selector,
                                 rules |-> rules,
                                 default |-> default],
                       raised |-> "none",
                       value |-> select_mesh(selector, rules, default),
                       preset |-> <<>>,
                       built |-> {}, reads |-> <<>>, out |-> <<>> ]
    /\ UNCHANGED <<module_state, backend, device_count, NEURON_CC_FLAGS, stdout, calls>>

Init ==
    /\ module_state = "unloaded"
    /\ backend \in Backends
    /\ device_count \in DeviceCounts
    /\ NEURON_CC_FLAGS \in InitialEnviron
    /\ stdout = <<>>
    /\ calls = 0
    /\ ret = [ fn |-> "none", args |-> <<>>, raised |-> "none", value |-> <<>>,
               preset |-> <<>>, built |-> {}, reads |-> <<>>, out |-> <<>> ]

Next ==
    \/ Import
    \/ CallGetTrainerKwargs
    \/ CallModelConfig
    \/ SelectMesh

Spec == Init /\ [][Next]_vars

(***************************************************************************)
(* Properties.                                                             *)
(***************************************************************************)
Resolved == ret.fn = "get_trainer_kwargs" /\ ret.raised = "none"

\* C1: for a valid size key, a device count divisible by the model axis size
\* gives eval_batch_size = d / a, and any other device count fails with
\* DeviceCountMismatch and returns no configuration.
C1_DeviceCountMismatch ==
    (ret.fn = "get_trainer_kwargs" /\ ret.args.model_size \in MODEL_SIZES) =>
        IF device_count % TRN_MODEL_AXIS_SIZE = 0
        THEN /\ ret.raised = "none"
             /\ ret.value.eval_batch_size = device_count \div TRN_MODEL_AXIS_SIZE
        ELSE /\ ret.raised = "DeviceCountMismatch"
             /\ DOMAIN ret.value = {}

\* C2: a size key outside MODEL_SIZES fails with the unknown-size-key error
\* before anything is built, returned or written; a key inside MODEL_SIZES never
\* raises that error.
C2_UnknownSizeKey ==
    ret.fn = "get_trainer_kwargs" =>
        IF ret.args.model_size \notin MODEL_SIZES
        THEN /\ ret.raised = "NotImplementedError"
             /\ DOMAIN ret.value = {}
             /\ DOMAIN ret.preset = {}
             /\ ret.built = {}
             /\ ret.out = <<>>
        ELSE /\ ret.raised # "NotImplementedError"
             /\ {"model_cfg", "learner_cfg"} \subseteq DOMAIN ret.value

C2_Witness ==
    /\ ret.fn = "get_trainer_kwargs"
    /\ ret.args.model_size = "70B"
    /\ ret.raised = "NotImplementedError"

C4_VocabSizeInjected ==
    Resolved => ret.value.model_cfg.vocab_size = ret.args.vocab_size

\* Descriptors the properties name.
tpu_v4_1024 == <<"t", "p", "u", "-", "v", "4", "-", "1", "0", "2", "4">>

tpu_v4_10240 == <<"t", "p", "u", "-", "v", "4", "-", "1", "0", "2", "4", "0">>

Selected == ret.fn = "select_mesh"

\* Indices of the rules whose pattern matches the whole selector.
Matching(rules, selector) ==
    {i \in 1..Len(rules) : FullMatch(rules[i].pattern, selector)}

\* C5: the resolver returns the shape of the earliest rule whose pattern matches
\* the whole descriptor, and the preset's default shape when none does; for 7B,
\* "tpu-v4-1024" gives (data=-1, fsdp=16) and "tpu-v4-10240" gives the default
\* (fsdp=-1); the test preset always gives its default.
C5_FirstFullMatchWins ==
    Selected =>
        LET m == Matching(ret.args.rules, ret.args.selector)
        IN  /\ m = {} => ret.value = ret.args.default
            /\ m # {} =>
                  \E i \in m : /\ \A j \in m : i <= j
                               /\ ret.value = ret.args.rules[i].shape
            /\ (ret.args.model_size = "7B" /\ ret.args.selector = tpu_v4_1024) =>
                  ret.value = [data |-> -1, fsdp |-> 16, seq |-> 1, model |-> 1]
            /\ (ret.args.model_size = "7B" /\ ret.args.selector = tpu_v4_10240) =>
                  ret.value = [data |-> 1, fsdp |-> -1, seq |-> 1, model |-> 1]
            /\ ret.args.model_size = "test" =>
                  /\ ret.args.rules = <<>>
                  /\ ret.value = ret.args.default

C5_Witness ==
    /\ Selected
    /\ ret.args.model_size = "7B"
    /\ ret.args.selector = tpu_v4_1024
    /\ ret.value.fsdp = 16

\* C6: a deferred dimension with scale s = num/den and rounding multiple m
\* resolves against base b to the smallest multiple of m that is >= s * b; a
\* concrete dimension resolves to itself; test gives 32, 7B gives 2048, and the
\* default of model_config with base 512 gives 1536.
C6_SmallestMultiple ==
    /\ ret.fn = "model_config" =>
          LET spec == ret.args.ffn_dim
              b == ret.args.hidden_dim
              r == ret.value.ffn_dim
          IN  /\ spec.kind = "int" => r = spec.num
              /\ spec.kind = "scaled" =>
                    /\ r % spec.m = 0
                    /\ r * spec.den >= spec.num * b
                    /\ (r - spec.m) * spec.den < spec.num * b
              /\ spec.kind = "none" =>
                    /\ r % 256 = 0
                    /\ r * 3 >= 8 * b
                    /\ (r - 256) * 3 < 8 * b
              /\ (spec.kind = "none" /\ b = 512) => r = 1536
    /\ Resolved =>
          /\ ret.args.model_size = "test" => ret.value.model_cfg.ffn_dim = 32
          /\ ret.args.model_size = "7B" => ret.value.model_cfg.ffn_dim = 2048

C6_Witness ==
    /\ ret.fn = "model_config"
    /\ ret.args.ffn_dim.kind = "none"
    /\ ret.args.hidden_dim = 512
    /\ ret.value.ffn_dim = 1536

\* The mandatory fields of a preset.
MandatoryFields ==
    { "num_layers", "hidden_dim", "num_heads", "vocab_size", "ffn_dim",
      "peak_lr", "weight_decay", "train_batch_size", "eval_batch_size",
      "max_step", "mesh_shape", "mesh_rules", "eval_every_n_steps" }

\* The fields a preset's bundle populates.
Populated(preset) ==
    ((DOMAIN preset) \ {"model_kwargs", "learner_kwargs"})
        \cup (DOMAIN preset.model_kwargs) \cup (DOMAIN preset.learner_kwargs)

\* C7 as stated: for both size keys every mandatory field is populated.
C7_AllFieldsPopulated ==
    Resolved => MandatoryFields \subseteq Populated(ret.preset)

\* C7 amended: the 7B preset populates every mandatory field; the test preset
\* populates all of them except the mesh-rule list and the evaluation cadence,
\* which it omits.
C7_TestOmitsRulesAndCadence ==
    Resolved =>
        /\ ret.args.model_size = "7B" =>
              MandatoryFields \subseteq Populated(ret.preset)
        /\ ret.args.model_size = "test" =>
              MandatoryFields \ Populated(ret.preset)
                  = {"mesh_rules", "eval_every_n_steps"}

C7_Witness ==
    /\ Resolved
    /\ ret.args.model_size = "test"
    /\ "eval_every_n_steps" \notin DOMAIN ret.preset
    /\ "max_step" \in DOMAIN ret.preset

\* C8: a resolution call writes nothing, looks up no external value and
\* leaves the process environment as it was.
C8_NoEffect ==
    /\ stdout = <<>>
    /\ ret.fn = "get_trainer_kwargs" => ret.reads = <<>>

\* C9: NEURON_CC_FLAGS changes at most once, when the module is imported before
\* any call and only on the neuron backend, by appending the tuning flag; no
\* call and no mesh selection changes it.
C9_AdjustedOnceAtImport ==
    [][ /\ (calls' # calls \/ ret'.fn # ret.fn \/ stdout' # stdout) =>
              NEURON_CC_FLAGS' = NEURON_CC_FLAGS
        /\ NEURON_CC_FLAGS' # NEURON_CC_FLAGS =>
              /\ module_state = "unloaded"
              /\ module_state' = "loaded"
              /\ calls = 0
              /\ backend = "neuron"
              /\ NEURON_CC_FLAGS'.present
              /\ NEURON_CC_FLAGS'.flags = Append(NEURON_CC_FLAGS.flags, tuning_flag)
        /\ module_state # "unloaded" => module_state' = module_state
        /\ calls > 0 => module_state = "loaded" ]_vars

C9_Witness ==
    /\ backend = "neuron"
    /\ calls >= 2
    /\ ret.fn = "get_trainer_kwargs"
    /\ Len(NEURON_CC_FLAGS.flags) = 2
    /\ NEURON_CC_FLAGS.flags[2] = tuning_flag

\* Number of axes holding the sentinel -1.
Sentinels(shape) == Cardinality({a \in DOMAIN shape : shape[a] = -1})

\* C10: every shape a preset carries, and every shape the resolver returns, has
\* at most one sentinel axis, and the resolver returns the preset's shape as it
\* is, the sentinel of a 7B shape still in place.
C10_AtMostOneSentinel ==
    /\ Resolved =>
          /\ Sentinels(ret.value.mesh_shape) <= 1
          /\ "mesh_rules" \in DOMAIN ret.value =>
                \A i \in 1..Len(ret.value.mesh_rules) :
                    Sentinels(ret.value.mesh_rules[i].shape) <= 1
    /\ Selected =>
          /\ Sentinels(ret.value) <= 1
          /\ \/ ret.value = ret.args.default
             \/ \E i \in 1..Len(ret.args.rules) : ret.value = ret.args.rules[i].shape
          /\ ret.args.model_size = "7B" => Sentinels(ret.value) = 1

C10_Witness ==
    /\ Selected
    /\ ret.args.model_size = "7B"
    /\ ret.value.data = -1
    /\ ret.value.model = TRN_MODEL_AXIS_SIZE

====
